---------------------------- MODULE Spec2Model ----------------------------
(***************************************************************************)
(* Model of ifermi/interpolator.py: Interpolater.interpolate_bands.        *)
(*                                                                         *)
(* One call of interpolate_bands is followed statement group by statement  *)
(* group.  The external routines (BoltzTraP2, spglib, pymatgen) are        *)
(* modelled by what the call relies on:                                    *)
(*   - sphere.get_equivalences returns a list of classes of integer        *)
(*     vectors (variable equivalences);                                    *)
(*   - fite.fitde3D returns one coefficient row per input band;            *)
(*   - fite.getBTPbands returns one energy row per coefficient row it is   *)
(*     given and one column per point of the library's own grid, the       *)
(*     columns in the library's sign-first order (variable btp_grid); the  *)
(*     value is the fitted band sampled at the point plus a bounded        *)
(*     deviation (the interpolant need not stay inside the input range);   *)
(*   - spglib.get_ir_reciprocal_mesh returns every address of the mesh     *)
(*     it is handed once, in an order of its own (variable spglib_order);  *)
(*   - BandStructure.is_metal / get_vbm / get_cbm as pymatgen computes     *)
(*     them.                                                               *)
(*                                                                         *)
(* Energies are integers.  The Fermi energy and the window limits are kept *)
(* doubled (efermi2, min_e2, max_e2) so that the midpoint (a + b) / 2 and  *)
(* a Fermi level between two band energies are exact.                      *)
(***************************************************************************)
EXTENDS Integers, Sequences, FiniteSets, TLC

\* ------------------------------------------------------------ bounds
\* Band energies of the input lie in 0..MaxEnergy.
MaxEnergy == 3
\* Number of bands of every spin channel of the input.
NBands == 2
\* energy_cutoff is None or one of 0..MaxCutoff.
MaxCutoff == 1
\* Largest deviation of the interpolant from the sampled input energy.
MaxOvershoot == 1
\* Largest x component of an equivalence vector.
MaxEquiv == 1
\* Largest rigid shift of the bands of spin down against those of spin up.
MaxShift == 2

\* Indices of the k-points of the input band structure.
KptIndex == {1, 2}

VARIABLES
    spin_keys,          \* self._spins: the keys of band_structure.bands, in dict order
    bands,              \* self._band_structure.bands: spin -> [band][kpoint] energy
    efermi2,            \* 2 * self._band_structure.efermi
    energy_cutoff,      \* <<>> for None, <<c>> for the number c
    equivalences,       \* what sphere.get_equivalences returns
    spglib_order,       \* the order in which spglib lists the addresses of a mesh
    btp_grid,           \* the grid points in the column order of getBTPbands
    overshoot,          \* deviation of the interpolant chosen by the library
    pc,                 \* position in the call
    idx,                \* position of the running per-spin loop in spin_keys
    interpolation_mesh, \* line 93
    coefficients,       \* line 84, filled at line 100
    is_metal,           \* line 101
    min_e2, max_e2,     \* 2 * min_e, 2 * max_e, lines 106-120
    ibands,             \* line 125, kept per spin
    energies,           \* line 122, filled at line 131, re-ordered at line 186
    new_vb_idx,         \* line 123, filled at line 147
    efermi_new2,        \* 2 * efermi, lines 150-160
    full_kpoints,       \* lines 166, 179, 185 (numerators; the denominators are
                        \* interpolation_mesh, the same for every point)
    sort_idx,           \* lines 169, 182
    result,             \* the returned (interp_band_structure, kpoint_dim)
    error               \* the exception the call ended with, or "none"

inputs == <<spin_keys, bands, efermi2, energy_cutoff, equivalences,
            spglib_order, btp_grid, overshoot>>
locals == <<pc, idx, interpolation_mesh, coefficients, is_metal, min_e2, max_e2,
            ibands, energies, new_vb_idx, efermi_new2, full_kpoints, sort_idx,
            result, error>>
vars == <<spin_keys, bands, efermi2, energy_cutoff, equivalences, spglib_order,
          btp_grid, overshoot, pc, idx, interpolation_mesh, coefficients,
          is_metal, min_e2, max_e2, ibands, energies, new_vb_idx, efermi_new2,
          full_kpoints, sort_idx, result, error>>

\* ------------------------------------------------------------ helpers
Max(S) == CHOOSE x \in S : \A y \in S : y <= x
Min(S) == CHOOSE x \in S : \A y \in S : x <= y
Abs(n) == IF n < 0 THEN -n ELSE n
Range(f) == {f[x] : x \in DOMAIN f}
SpinSet == Range(spin_keys)
NoMap == [s \in {} |-> 0]
Put(m, k, v) == [s \in (DOMAIN m) \cup {k} |-> IF s = k THEN v ELSE m[s]]


\* ------------------------------------------------------------ mesh
\* np.vstack(equivalences): every vector of every class.
VStack(eqs) == UNION eqs

\* np.max(np.abs(np.vstack(equivalences)), axis=0): per component.
MaxAbsAxis0(eqs) == [c \in 1..3 |-> Max({Abs(v[c]) : v \in VStack(eqs)})]

\* A slip in lines 93 and 188: the "+ 1" left out.
MeshDimsEven(eqs) == [c \in 1..3 |-> 2 * MaxAbsAxis0(eqs)[c]]

\* Lines 93 and 188: 2 * max(|equivalences|) + 1, component-wise.
MeshDims(eqs) == [c \in 1..3 |-> 2 * MaxAbsAxis0(eqs)[c] + 1]

\* ------------------------------------------------------------ sorting
\* Order of two key tuples under np.lexsort: the LAST key is the primary one.
LexLess(a, b) ==
    \E c \in DOMAIN a :
        /\ a[c] < b[c]
        /\ \A d \in DOMAIN a : d > c => a[d] = b[d]

\* Rank (1-based) of every element under a stable sort by its key tuple.
StableRank(keys) ==
    [n \in DOMAIN keys |->
        1 + Cardinality({m \in DOMAIN keys :
                            \/ LexLess(keys[m], keys[n])
                            \/ (keys[m] = keys[n] /\ m < n)})]

InversePerm(rank) ==
    [r \in DOMAIN rank |-> CHOOSE n \in DOMAIN rank : rank[n] = r]

\* np.lexsort(keys): the permutation that sorts, stable; keys[n] is the tuple
\* of the keys of element n in the order they are handed to np.lexsort.
LexSort(keys) == InversePerm(StableRank(keys))

\* a[sort_idx]: fancy indexing of a sequence by a permutation.
Take(a, perm) == [r \in DOMAIN perm |-> a[perm[r]]]

\* x < 0 as numpy orders booleans: False (0) before True (1).
Neg(x) == IF x < 0 THEN 1 ELSE 0

\* A slip in lines 169-178: the sign keys left out, which makes the first
\* sort a plain (x, y, z) sort.
SignFirstKeysNoSign(kpts) ==
    [n \in DOMAIN kpts |-> <<kpts[n][3], kpts[n][2], kpts[n][1]>>]

\* Lines 169-178: the keys of the first sort; primary key is x < 0, then x,
\* then y < 0, y, z < 0, z.
SignFirstKeys(kpts) ==
    [n \in DOMAIN kpts |->
        <<kpts[n][3], Neg(kpts[n][3]), kpts[n][2], Neg(kpts[n][2]),
          kpts[n][1], Neg(kpts[n][1])>>]

\* A slip in lines 182-184: the keys handed to np.lexsort in the order
\* x, y, z, which makes z the primary key.
PlainKeysZFirst(kpts) ==
    [n \in DOMAIN kpts |-> <<kpts[n][1], kpts[n][2], kpts[n][3]>>]

\* Lines 182-184: the keys of the second sort; primary key is x, then y, z.
PlainKeys(kpts) ==
    [n \in DOMAIN kpts |-> <<kpts[n][3], kpts[n][2], kpts[n][1]>>]

\* A slip in line 186: only the first spin channel re-ordered and kept.
SortEnergiesUpOnly(en, perm) ==
    [s \in (DOMAIN en) \cap {"up"} |-> [r \in DOMAIN en[s] |-> Take(en[s][r], perm)]]

\* Line 186: {s: b[:, sort_idx] for s, b in energies.items()}.
SortEnergies(en, perm) ==
    [s \in DOMAIN en |-> [r \in DOMAIN en[s] |-> Take(en[s][r], perm)]]

\* ------------------------------------------------------------ pymatgen
AllEnergies == {bands[s][b][k] : s \in SpinSet, b \in 1..NBands, k \in KptIndex}

\* BandStructure.is_metal: some band has energies on both sides of the Fermi level.
IsMetal ==
    \E s \in SpinSet : \E b \in 1..NBands :
        /\ \E k \in KptIndex : 2 * bands[s][b][k] < efermi2
        /\ \E k \in KptIndex : 2 * bands[s][b][k] > efermi2

\* BandStructure.get_vbm()["energy"]: the largest energy below the Fermi level.
VbmEnergy == Max({e \in AllEnergies : 2 * e < efermi2})

\* BandStructure.get_cbm()["energy"]: the smallest energy above the Fermi level.
CbmEnergy == Min({e \in AllEnergies : 2 * e > efermi2})

\* The k-point get_vbm settles on: the first place, in the order spin, band,
\* k-point, whose energy is the VBM energy.
VbmKpoint ==
    LET at == {<<p, b, k>> \in (DOMAIN spin_keys) \X (1..NBands) \X KptIndex :
                  bands[spin_keys[p]][b][k] = VbmEnergy}
        first == CHOOSE t \in at : \A u \in at :
                    \/ t[1] < u[1]
                    \/ (t[1] = u[1] /\ t[2] < u[2])
                    \/ (t[1] = u[1] /\ t[2] = u[2] /\ t[3] <= u[3])
    IN  first[3]

\* BandStructure.get_vbm()["band_index"][spin]: the bands of the spin that
\* carry the VBM energy at that k-point (none for a spin whose bands do not).
VbmBandIndex(s) == {b \in 1..NBands : bands[s][b][VbmKpoint] = VbmEnergy}

\* ------------------------------------------------------------ BoltzTraP2
\* The keys of the library's own column order: sign first (non-negative
\* before negative), then by value, on x, then y, then z.
BTPKeys(kpts) ==
    [n \in DOMAIN kpts |->
        <<kpts[n][3], Neg(kpts[n][3]), kpts[n][2], Neg(kpts[n][2]),
          kpts[n][1], Neg(kpts[n][1])>>]

\* The input k-point whose fitted energy the interpolant takes at grid point p.
ColOf(p) == ((Abs(p[1]) + Abs(p[2]) + Abs(p[3])) % Cardinality(KptIndex)) + 1

Sgn(n) == IF n < 0 THEN -1 ELSE IF n > 0 THEN 1 ELSE 0

\* The energy the library evaluates for one coefficient row at grid point p,
\* converted back to eV (line 139).
Interp(coef, p) ==
    bands[coef.spin][coef.band][ColOf(p)] + overshoot * Sgn(p[1] + p[2] + p[3])

\* fite.fitde3D(data, equivalences): one coefficient row per band (line 100).
Fitde3D(s) == [b \in 1..NBands |-> [spin |-> s, band |-> b]]

\* fite.getBTPbands(...)[0] / units.eV: one row per coefficient row, one
\* column per grid point, columns in the library's order (lines 131-139).
GetBTPbands(coefs) ==
    [r \in DOMAIN coefs |-> [c \in DOMAIN btp_grid |-> Interp(coefs[r], btp_grid[c])]]

\* ------------------------------------------------------------ window
\* Python truthiness of energy_cutoff (lines 106, 110): None and 0 are false.
Truthy(cutoff) == cutoff # <<>> /\ cutoff[1] # 0

\* Lines 106-120: 2 * min_e.
WindowMin2(metal) ==
    IF Truthy(energy_cutoff) /\ metal THEN efermi2 - 2 * energy_cutoff[1]
    ELSE IF Truthy(energy_cutoff) THEN 2 * VbmEnergy - 2 * energy_cutoff[1]
    ELSE 2 * Min(AllEnergies)

\* Lines 106-120: 2 * max_e.
WindowMax2(metal) ==
    IF Truthy(energy_cutoff) /\ metal THEN efermi2 + 2 * energy_cutoff[1]
    ELSE IF Truthy(energy_cutoff) THEN 2 * CbmEnergy + 2 * energy_cutoff[1]
    ELSE 2 * Max(AllEnergies)

\* Lines 126-127: (bands > min_e) & (bands < min_e) for one energy.
InWindow(e, lo2, hi2) == 2 * e > lo2 /\ 2 * e < hi2

\* Lines 125-129: np.any(..., axis=1), the mask of the bands of spin s.
BandMask(s, lo2, hi2) ==
    [b \in 1..NBands |-> \E k \in KptIndex : InWindow(bands[s][b][k], lo2, hi2)]

\* The indices a boolean mask selects, ascending (coefficients[spin][ibands]).
MaskIndices(mask) ==
    SelectSeq([b \in DOMAIN mask |-> b], LAMBDA b : mask[b])

\* Line 147: sum(ibands[: vb_idx + 1]) - 1, vb the 1-based valence band index.
NewVbIdx(mask, vb) == Cardinality({b \in 1..vb : mask[b]}) - 1

\* ------------------------------------------------------------ Fermi level
\* energies[s][: new_vb_idx[s] + 1]: the values of the valence rows.
ValenceValues(en, nvb) ==
    {en[r][c] : r \in {q \in DOMAIN en : q <= nvb + 1}, c \in DOMAIN btp_grid}

\* energies[s][new_vb_idx[s] + 1 :]: the values of the conduction rows.
ConductionValues(en, nvb) ==
    {en[r][c] : r \in {q \in DOMAIN en : q > nvb + 1}, c \in DOMAIN btp_grid}

\* A slip in line 159: max in place of min for the conduction bands.
GapMiddle2MaxMax(en, nvb) ==
    Max({Max(ValenceValues(en[s], nvb[s])) : s \in SpinSet})
    + Max({Max(ConductionValues(en[s], nvb[s])) : s \in SpinSet})

\* Lines 158-160: 2 * (e_vbm + e_cbm) / 2.
GapMiddle2(en, nvb) ==
    Max({Max(ValenceValues(en[s], nvb[s])) : s \in SpinSet})
    + Min({Min(ConductionValues(en[s], nvb[s])) : s \in SpinSet})

\* A slip in line 151: the Fermi level of a metal set to the middle of the
\* energy window instead of the input's Fermi level.
NewEfermi2WindowMiddle(metal, en, nvb) ==
    IF metal THEN (min_e2 + max_e2) \div 2 ELSE GapMiddle2(en, nvb)

\* Lines 150-160: 2 * efermi.
NewEfermi2(metal, en, nvb) == IF metal THEN efermi2 ELSE GapMiddle2(en, nvb)

\* ------------------------------------------------------------ inputs
\* One k-point's energies, increasing with the band index.
BandColumns ==
    {col \in [1..NBands -> 0..MaxEnergy] :
        \A b \in 1..(NBands - 1) : col[b] < col[b + 1]}

\* The [band][kpoint] arrays of one spin channel.
BandArrays ==
    {[b \in 1..NBands |-> [k \in KptIndex |-> cols[k][b]]] :
        cols \in [KptIndex -> BandColumns]}

\* The bands of one spin channel shifted rigidly (an exchange splitting).
Shifted(arr, shift) ==
    [b \in DOMAIN arr |-> [k \in DOMAIN arr[b] |-> arr[b][k] + shift]]

\* A symmetry class: a vector with all its sign changes.
Orbit(v) ==
    {<<sx * v[1], sy * v[2], sz * v[3]>> : sx \in {-1, 1}, sy \in {-1, 1}, sz \in {-1, 1}}

EquivVectors == (0..MaxEquiv) \X (0..1) \X (0..1)

\* The addresses of one axis of a mesh of m points in one of three orders.
AddrOrder(m, kind) ==
    LET h == (m - 1) \div 2
    IN  [n \in 1..m |->
            IF kind = "wrap" THEN (IF n - 1 <= h THEN n - 1 ELSE n - 1 - m)
            ELSE IF kind = "asc" THEN n - 1 - h
            ELSE h - (n - 1)]

\* Every address of the mesh once: the axes in the given order, x or z running
\* fastest.
GridOf(mesh, kind, xfast) ==
    LET ox == AddrOrder(mesh[1], kind)
        oy == AddrOrder(mesh[2], kind)
        oz == AddrOrder(mesh[3], kind)
    IN  [n \in 1..(mesh[1] * mesh[2] * mesh[3]) |->
            IF xfast
            THEN <<ox[((n - 1) % mesh[1]) + 1],
                   oy[(((n - 1) \div mesh[1]) % mesh[2]) + 1],
                   oz[((n - 1) \div (mesh[1] * mesh[2])) + 1]>>
            ELSE <<ox[((n - 1) \div (mesh[3] * mesh[2])) + 1],
                   oy[(((n - 1) \div mesh[3]) % mesh[2]) + 1],
                   oz[((n - 1) % mesh[3]) + 1]>>]

\* spglib.get_ir_reciprocal_mesh(mesh, atoms, symprec=0.1)[1] (line 163).
GetIrReciprocalMesh(mesh) == GridOf(mesh, spglib_order[1], spglib_order[2])

\* The dimensions of the grid getBTPbands evaluates on, which the library
\* derives from the equivalences it is handed (line 132).
BTPDims(eqs) == [c \in 1..3 |-> 2 * Max({Abs(v[c]) : v \in UNION eqs}) + 1]

\* The library's columns: the grid of the equivalences in the library's order.
BTPGrid(eqs) ==
    LET g == GridOf(BTPDims(eqs), "asc", TRUE)
    IN  Take(g, LexSort(BTPKeys(g)))

\* The state of the locals before the first statement of the call.
InitLocals ==
    /\ pc = "start"
    /\ idx = 1
    /\ interpolation_mesh = <<>>
    /\ coefficients = NoMap
    /\ is_metal = FALSE
    /\ min_e2 = 0
    /\ max_e2 = 0
    /\ ibands = NoMap
    /\ energies = NoMap
    /\ new_vb_idx = NoMap
    /\ efermi_new2 = 0
    /\ full_kpoints = <<>>
    /\ sort_idx = <<>>
    /\ result = <<>>
    /\ error = "none"

\* Calls that vary the band structure, the Fermi level and the cutoff.
InitBands ==
    /\ spin_keys \in {<<"up">>, <<"up", "down">>}
    /\ \E up \in BandArrays, shift \in (IF Len(spin_keys) = 1 THEN {0} ELSE 0..MaxShift) :
          bands = [s \in Range(spin_keys) |->
                      IF s = "up" THEN up ELSE Shifted(up, shift)]
    /\ efermi2 \in {2 * e + 1 : e \in 0..(MaxEnergy - 1)}
    /\ \E e \in AllEnergies : 2 * e < efermi2
    /\ \E e \in AllEnergies : 2 * e > efermi2
    /\ energy_cutoff \in {<<>>} \cup {<<c>> : c \in 0..MaxCutoff}
    /\ overshoot \in 0..MaxOvershoot
    /\ equivalences = {{<<0, 0, 0>>}, Orbit(<<1, 0, 0>>)}
    /\ spglib_order = <<"wrap", TRUE>>
    /\ btp_grid = BTPGrid(equivalences)

\* Calls that vary the equivalence classes and the order of spglib's grid.
InitGrid ==
    /\ spin_keys = <<"up">>
    /\ bands = [s \in {"up"} |-> [b \in 1..NBands |-> [k \in KptIndex |-> b + k - 2]]]
    /\ efermi2 = 1
    /\ energy_cutoff = <<>>
    /\ overshoot \in 0..MaxOvershoot
    /\ \E v \in EquivVectors, w \in EquivVectors :
          /\ 4 * v[1] + 2 * v[2] + v[3] <= 4 * w[1] + 2 * w[2] + w[3]
          /\ equivalences = {{<<0, 0, 0>>}, Orbit(v), Orbit(w)}
    /\ spglib_order \in {"wrap", "asc", "desc"} \X BOOLEAN
    /\ btp_grid = BTPGrid(equivalences)

Init == (InitBands \/ InitGrid) /\ InitLocals

\* ------------------------------------------------------------ the call
\* Lines 84-93: the equivalences and the interpolation mesh.
Start ==
    /\ pc = "start"
    /\ interpolation_mesh' = MeshDims(equivalences)
    /\ coefficients' = NoMap
    /\ idx' = 1
    /\ pc' = "fit"
    /\ UNCHANGED <<inputs, is_metal, min_e2, max_e2, ibands, energies, new_vb_idx,
                   efermi_new2, full_kpoints, sort_idx, result, error>>

\* Lines 95-100: one turn of the loop that fits the coefficients of a spin.
FitSpin ==
    /\ pc = "fit"
    /\ coefficients' = Put(coefficients, spin_keys[idx], Fitde3D(spin_keys[idx]))
    /\ idx' = IF idx = Len(spin_keys) THEN 1 ELSE idx + 1
    /\ pc' = IF idx = Len(spin_keys) THEN "window" ELSE "fit"
    /\ UNCHANGED <<inputs, interpolation_mesh, is_metal, min_e2, max_e2, ibands,
                   energies, new_vb_idx, efermi_new2, full_kpoints, sort_idx,
                   result, error>>

\* Lines 101-123: is_metal, the energy window, the empty maps.
DetermineWindow ==
    /\ pc = "window"
    /\ is_metal' = IsMetal
    /\ min_e2' = WindowMin2(IsMetal)
    /\ max_e2' = WindowMax2(IsMetal)
    /\ energies' = NoMap
    /\ new_vb_idx' = NoMap
    /\ idx' = 1
    /\ pc' = "eval"
    /\ UNCHANGED <<inputs, interpolation_mesh, coefficients, ibands, efermi_new2,
                   full_kpoints, sort_idx, result, error>>

\* Lines 124-147: one turn of the loop that evaluates the bands of a spin.
\* An empty mask hands the library an empty coefficient array, for which it
\* returns an array of no rows.  The energies of the spin are stored (line
\* 131) before the valence index is looked up (line 142), whose max() over
\* an empty list raises ValueError.
EvalSpin ==
    /\ pc = "eval"
    /\ LET s == spin_keys[idx]
           mask == BandMask(s, min_e2, max_e2)
           last == idx = Len(spin_keys)
       IN  /\ ibands' = Put(ibands, s, mask)
           /\ energies' = Put(energies, s,
                              GetBTPbands(Take(coefficients[s], MaskIndices(mask))))
           /\ IF is_metal
              THEN /\ new_vb_idx' = new_vb_idx
                   /\ error' = error
                   /\ idx' = IF last THEN 1 ELSE idx + 1
                   /\ pc' = IF last THEN "fermi" ELSE "eval"
              ELSE IF VbmBandIndex(s) = {}
              THEN /\ new_vb_idx' = new_vb_idx
                   /\ error' = "ValueError"
                   /\ idx' = idx
                   /\ pc' = "raised"
              ELSE /\ new_vb_idx' = Put(new_vb_idx, s, NewVbIdx(mask, Max(VbmBandIndex(s))))
                   /\ error' = error
                   /\ idx' = IF last THEN 1 ELSE idx + 1
                   /\ pc' = IF last THEN "fermi" ELSE "eval"
    /\ UNCHANGED <<inputs, interpolation_mesh, coefficients, is_metal, min_e2,
                   max_e2, efermi_new2, full_kpoints, sort_idx, result>>

\* Lines 150-160: the Fermi level.  np.max / np.min of an empty slice raises
\* ValueError.
Fermi ==
    /\ pc = "fermi"
    /\ IF is_metal
       THEN /\ efermi_new2' = NewEfermi2(is_metal, energies, new_vb_idx)
            /\ pc' = "mesh"
            /\ error' = error
       ELSE IF \E s \in SpinSet :
                  \/ ValenceValues(energies[s], new_vb_idx[s]) = {}
                  \/ ConductionValues(energies[s], new_vb_idx[s]) = {}
       THEN /\ efermi_new2' = efermi_new2
            /\ pc' = "raised"
            /\ error' = "ValueError"
       ELSE /\ efermi_new2' = NewEfermi2(is_metal, energies, new_vb_idx)
            /\ pc' = "mesh"
            /\ error' = error
    /\ UNCHANGED <<inputs, idx, interpolation_mesh, coefficients, is_metal, min_e2,
                   max_e2, ibands, energies, new_vb_idx, full_kpoints, sort_idx,
                   result>>

\* Lines 162-166: spglib's grid, divided by the mesh.
Mesh ==
    /\ pc = "mesh"
    /\ full_kpoints' = GetIrReciprocalMesh(interpolation_mesh)
    /\ pc' = "sort1"
    /\ UNCHANGED <<inputs, idx, interpolation_mesh, coefficients, is_metal, min_e2,
                   max_e2, ibands, energies, new_vb_idx, efermi_new2, sort_idx,
                   result, error>>

\* Lines 169-179: the first sort, of the k-points alone.
Sort1 ==
    /\ pc = "sort1"
    /\ sort_idx' = LexSort(SignFirstKeys(full_kpoints))
    /\ full_kpoints' = Take(full_kpoints, sort_idx')
    /\ pc' = "sort2"
    /\ UNCHANGED <<inputs, idx, interpolation_mesh, coefficients, is_metal, min_e2,
                   max_e2, ibands, energies, new_vb_idx, efermi_new2, result, error>>

\* Lines 182-186: the second sort, of the k-points and of the energy columns.
Sort2 ==
    /\ pc = "sort2"
    /\ sort_idx' = LexSort(PlainKeys(full_kpoints))
    /\ full_kpoints' = Take(full_kpoints, sort_idx')
    /\ energies' = SortEnergies(energies, sort_idx')
    /\ pc' = "return"
    /\ UNCHANGED <<inputs, idx, interpolation_mesh, coefficients, is_metal, min_e2,
                   max_e2, ibands, new_vb_idx, efermi_new2, result, error>>

\* Lines 188-197: the band structure and the mesh dimensions returned.
Return ==
    /\ pc = "return"
    /\ result' = [kpoints |-> full_kpoints,
                  bands |-> energies,
                  efermi2 |-> efermi_new2,
                  kpoint_dim |-> MeshDims(equivalences)]
    /\ pc' = "done"
    /\ UNCHANGED <<inputs, idx, interpolation_mesh, coefficients, is_metal, min_e2,
                   max_e2, ibands, energies, new_vb_idx, efermi_new2, full_kpoints,
                   sort_idx, error>>

Next ==
    \/ Start
    \/ FitSpin
    \/ DetermineWindow
    \/ EvalSpin
    \/ Fermi
    \/ Mesh
    \/ Sort1
    \/ Sort2
    \/ Return

Spec == Init /\ [][Next]_vars

\* ------------------------------------------------------------ properties
Ended == pc \in {"done", "raised"}
AfterWindow == pc \notin {"start", "fit", "window"}
AfterEval == pc \in {"fermi", "mesh", "sort1", "sort2", "return", "done"}

\* The bands of spin s with an energy strictly inside (lo2 / 2, hi2 / 2).
BandsInside(s, lo2, hi2) ==
    {b \in 1..NBands : \E k \in KptIndex :
        2 * bands[s][b][k] > lo2 /\ 2 * bands[s][b][k] < hi2}

\* C1: whenever the mask of some spin selects no band, the call ends by
\* raising NoBandsInWindowError: it neither returns nor raises another error.
C1_NoBandsInWindowError ==
    (Ended /\ \E s \in SpinSet : BandsInside(s, min_e2, max_e2) = {})
        => error = "NoBandsInWindowError"

\* C2: with energy_cutoff None the window is [global minimum, global maximum]
\* and every band of every spin is selected, so every spin's output array has
\* as many rows as the spin has input bands.
C2_NoCutoffKeepsEveryBand ==
    (energy_cutoff = <<>> /\ AfterWindow) =>
        /\ min_e2 = 2 * Min(AllEnergies)
        /\ max_e2 = 2 * Max(AllEnergies)
        /\ \A s \in DOMAIN ibands : \A b \in 1..NBands : ibands[s][b]
        /\ pc = "done" => \A s \in SpinSet : Len(result.bands[s]) = NBands

\* C3: for a metallic input, the Fermi energy of the returned band structure
\* is the input's Fermi energy.
C3_MetalKeepsFermi ==
    (pc = "done" /\ IsMetal) => result.efermi2 = efermi2

C3_Witness ==
    /\ pc = "done"
    /\ IsMetal
    /\ energy_cutoff = <<>>
    /\ overshoot > 0
    /\ 2 * Min(AllEnergies) + 2 * Max(AllEnergies) # 2 * efermi2

\* The largest returned energy, over all spins, of the rows up to the new
\* valence index, and the smallest of the rows above it.
ReturnedVbm ==
    Max(UNION {{result.bands[s][r][c] :
                    r \in 1..(new_vb_idx[s] + 1), c \in DOMAIN result.kpoints} :
               s \in SpinSet})

ReturnedCbm ==
    Min(UNION {{result.bands[s][r][c] :
                    r \in (new_vb_idx[s] + 2)..Len(result.bands[s]),
                    c \in DOMAIN result.kpoints} :
               s \in SpinSet})

\* C4 as stated: for a non-metallic input with no cutoff the returned Fermi
\* energy is the mean of the new VBM and the new CBM and lies strictly
\* between them.
C4_MidGapStrictlyBetween ==
    (pc = "done" /\ ~IsMetal /\ energy_cutoff = <<>>) =>
        /\ result.efermi2 = ReturnedVbm + ReturnedCbm
        /\ 2 * ReturnedVbm < result.efermi2
        /\ result.efermi2 < 2 * ReturnedCbm

\* C4 as amended: for a non-metallic input with no cutoff the returned Fermi
\* energy is the mean of the new VBM and the new CBM, and so lies between
\* them, the ends included; the new VBM need not be below the new CBM.
C4_MidGap ==
    (pc = "done" /\ ~IsMetal /\ energy_cutoff = <<>>) =>
        /\ result.efermi2 = ReturnedVbm + ReturnedCbm
        /\ \/ 2 * ReturnedVbm <= result.efermi2 /\ result.efermi2 <= 2 * ReturnedCbm
           \/ 2 * ReturnedCbm <= result.efermi2 /\ result.efermi2 <= 2 * ReturnedVbm

C4_Witness ==
    /\ pc = "done"
    /\ ~IsMetal
    /\ energy_cutoff = <<>>
    /\ Len(spin_keys) = 2
    /\ ReturnedVbm >= ReturnedCbm

\* (x, y, z) lexicographic order of two k-points.
KpointBefore(p, q) ==
    \/ p[1] < q[1]
    \/ p[1] = q[1] /\ p[2] < q[2]
    \/ p[1] = q[1] /\ p[2] = q[2] /\ p[3] < q[3]

\* C5: the returned k-points ascend lexicographically by (x, y, z), and
\* sorting them again by (x, y, z) is the identity permutation.
C5_KpointsSorted ==
    pc = "done" =>
        /\ \A n \in 1..(Len(result.kpoints) - 1) :
              KpointBefore(result.kpoints[n], result.kpoints[n + 1])
        /\ LexSort(PlainKeys(result.kpoints)) = [n \in DOMAIN result.kpoints |-> n]

C5_Witness ==
    /\ pc = "done"
    /\ Len(result.kpoints) > 3
    /\ spglib_order = <<"desc", FALSE>>
    /\ \E n \in DOMAIN result.kpoints : result.kpoints[n][2] < 0

\* C6: component c of the returned mesh dimensions is 2 * (the largest
\* |component c| of an equivalence vector) + 1; it is the mesh handed to the
\* symmetry routine; every equivalence vector fits: |v[c]| <= (mesh[c] - 1) / 2.
C6_MeshDimensions ==
    /\ pc # "start" =>
          \A c \in 1..3 :
              /\ \E v \in UNION equivalences : interpolation_mesh[c] = 2 * Abs(v[c]) + 1
              /\ \A v \in UNION equivalences : 2 * Abs(v[c]) <= interpolation_mesh[c] - 1
    /\ pc = "done" => result.kpoint_dim = interpolation_mesh

C6_Witness ==
    /\ pc = "done"
    /\ result.kpoint_dim = <<3, 1, 3>>
    /\ Len(result.kpoints) = 9

\* C7 as stated: at every step of the call at which it exists, the
\* coefficients map (from line 84 on) and the energies map (from line 122 on)
\* have the spin keys of the input, and so has the returned band structure.
C7_SpinKeysAtEveryStep ==
    /\ pc # "start" => DOMAIN coefficients = SpinSet
    /\ AfterWindow => DOMAIN energies = SpinSet
    /\ pc = "done" => DOMAIN result.bands = SpinSet

\* C7 as amended: the keys of both maps are always spin keys of the input;
\* from the end of the loop that fills a map on, the map has exactly the
\* input's spin keys; the returned band structure has exactly those keys.
C7_SpinKeys ==
    /\ DOMAIN coefficients \subseteq SpinSet
    /\ DOMAIN energies \subseteq SpinSet
    /\ AfterWindow \/ pc = "window" => DOMAIN coefficients = SpinSet
    /\ AfterEval => DOMAIN energies = SpinSet
    /\ pc = "done" => DOMAIN result.bands = SpinSet

C7_Witness ==
    /\ pc = "done"
    /\ Len(spin_keys) = 2
    /\ DOMAIN result.bands = {"up", "down"}

\* The window C8 names: [Fermi - cutoff, Fermi + cutoff] for a metal,
\* [VBM - cutoff, CBM + cutoff] otherwise (doubled).
CutoffMin2 ==
    IF IsMetal THEN efermi2 - 2 * energy_cutoff[1]
    ELSE 2 * VbmEnergy - 2 * energy_cutoff[1]

CutoffMax2 ==
    IF IsMetal THEN efermi2 + 2 * energy_cutoff[1]
    ELSE 2 * CbmEnergy + 2 * energy_cutoff[1]

\* C8: with any energy_cutoff other than None (0 included) a band is kept
\* exactly when one of its energies is strictly inside the cutoff window.
C8_CutoffWindow ==
    (energy_cutoff # <<>> /\ AfterWindow) =>
        /\ min_e2 = CutoffMin2
        /\ max_e2 = CutoffMax2
        /\ \A s \in DOMAIN ibands : \A b \in 1..NBands :
              ibands[s][b] <=> b \in BandsInside(s, CutoffMin2, CutoffMax2)
        /\ pc = "done" =>
              \A s \in SpinSet :
                  Len(result.bands[s]) = Cardinality(BandsInside(s, CutoffMin2, CutoffMax2))

\* C9: for a non-metallic input every spin of which has a selected band, the
\* recentering is well defined: every spin has a valence index, its new
\* valence index is in 0..(selected bands - 2), and no max or min over an
\* empty selection occurs.
C9_RecenteringDefined ==
    (~IsMetal /\ (AfterEval \/ pc = "raised")
        /\ \A s \in SpinSet : BandsInside(s, min_e2, max_e2) # {}) =>
        /\ error # "ValueError"
        /\ \A s \in SpinSet :
              /\ VbmBandIndex(s) # {}
              /\ s \in DOMAIN new_vb_idx
              /\ 0 <= new_vb_idx[s]
              /\ new_vb_idx[s] <= Cardinality(BandsInside(s, min_e2, max_e2)) - 2

\* The column of getBTPbands that holds grid point p.
BTPColumn(p) == CHOOSE c \in DOMAIN btp_grid : btp_grid[c] = p

\* C10: with the evaluated columns in the library's sign-first order, every
\* returned column j of every spin is the evaluated column of returned
\* k-point j, and so holds the energies evaluated at that k-point.
C10_ColumnsFollowKpoints ==
    pc = "done" =>
        \A s \in SpinSet :
            LET coefs == Take(coefficients[s], MaskIndices(ibands[s]))
                evaluated == GetBTPbands(coefs)
            IN  /\ Len(result.bands[s]) = Len(coefs)
                /\ \A r \in DOMAIN coefs : \A j \in DOMAIN result.kpoints :
                      /\ result.bands[s][r][j] = evaluated[r][BTPColumn(result.kpoints[j])]
                      /\ result.bands[s][r][j] = Interp(coefs[r], result.kpoints[j])

C10_Witness ==
    /\ pc = "done"
    /\ Len(result.kpoints) = 27
    /\ spglib_order = <<"wrap", TRUE>>
    /\ overshoot > 0
    /\ result.kpoints # btp_grid

=============================================================================
